---- MODULE Spec2Model ----
(***************************************************************************)
(* A model of the resume-processing repository:                            *)
(*   - src/lambda/handler.py            lambda_handler, process_with_retry *)
(*   - src/lambda/bda_parser/bda_client.py   BDAResumeParser               *)
(*   - src/cli/promote_blueprint.py     main, promote_to_live              *)
(*                                                                         *)
(* Strings are modelled as sequences of tokens: a token is either one of   *)
(* the characters the code looks at ("/", ".", "+", " "), a percent escape *)
(* ("%2F") or a run of other characters ("input", "resume1", "pdf").       *)
(* Time is counted in seconds and advances only through time.sleep; the    *)
(* calls to the automation service are taken as instantaneous.             *)
(***************************************************************************)
EXTENDS Integers, Sequences, FiniteSets, TLC

VARIABLES
    entry,          \* the function the behaviour calls from outside
    pc,             \* where control is: "record", "submit", "poll", "done", "promoter"
    \* ---- lambda_handler (handler.py:35-90)
    event,          \* event['Records']
    idx,            \* index of the record the for loop is at (1-based)
    s3_key,         \* local variable s3_key; Unbound before its first assignment
    results,        \* local list results
    entryRec,       \* entryRec[j]: index of the record results[j] was appended for
    handlerOutcome, \* what lambda_handler gave its caller
    \* ---- process_with_retry (handler.py:11-32)
    max_retries,    \* parameter max_retries
    input_s3_uri,   \* parameter input_s3_uri
    output_s3_uri,  \* parameter output_s3_uri
    attempt,        \* loop variable attempt
    sleepLog,       \* the time.sleep calls of this call, in order
    invocation_arn, \* local variable invocation_arn
    retryOutcome,   \* what process_with_retry gave its caller
    caught,         \* the exception its except clause caught last, if any
    clock,          \* seconds slept so far, kept when entry is "invocation"
    \* ---- BDAResumeParser.wait_for_completion (bda_client.py:99-117)
    max_wait_time,  \* parameter max_wait_time
    elapsed,        \* time.time() - start_time
    queries,        \* check_status calls made by this call
    pollSleeps,     \* time.sleep calls made by this call
    missedTerminal, \* this call saw a terminal status and went on polling
    pollOutcome,    \* what wait_for_completion gave its caller
    \* ---- the automation service, as seen through the calls made to it
    issued,         \* number of job handles the service has returned
    submitCount,    \* submitCount[i]: submit calls made for record i
    queriedFor,     \* the records a status query was made for
    lastSubmit,     \* arguments of the latest submit call
    queryArn,       \* job handle of the latest status query
    \* ---- BDAResumeParser.download_results (bda_client.py:119-144)
    statusResponse, \* the answer get_data_automation_status gives this call
    result_s3_uri,  \* local variable result_s3_uri; NoUri before its assignment
    fetchLog,       \* the download_file calls of this call: bucket and key
    downloadOutcome,\* what download_results gave its caller
    \* ---- the promoter CLI (promote_blueprint.py), one entry per run of it
    blueprint,      \* the blueprint held by the automation service
    blueprint0,     \* the blueprint before any run of the promoter
    ppc,            \* ppc[r]: where run r is: "main", "fetch", "update", "exited"
    fetched,        \* fetched[r]: local variable blueprint of promote_to_live
    updateCalls,    \* updateCalls[r]: the update_blueprint calls run r made
    fetchCalls,     \* fetchCalls[r]: number of get_blueprint calls run r made
    exitCode,       \* exitCode[r]: the process exit code of run r
    promotedBefore, \* promotedBefore[r]: an update had succeeded when r fetched
    outputs,        \* outputs[r]: <<>>, or <<o>> with o the outputs main read
    callResults     \* callResults[r]: how each call of run r to the service ended

lvars == <<entry, pc, event, idx, s3_key, results, entryRec, handlerOutcome,
           max_retries, input_s3_uri, output_s3_uri, attempt, sleepLog,
           invocation_arn, retryOutcome, caught, clock,
           max_wait_time, elapsed, queries, pollSleeps, missedTerminal,
           pollOutcome,
           issued, submitCount, queriedFor, lastSubmit, queryArn,
           statusResponse, result_s3_uri, fetchLog, downloadOutcome>>

mvars == <<blueprint, blueprint0, ppc, fetched, updateCalls, fetchCalls, exitCode,
           promotedBefore, outputs, callResults>>

vars == <<lvars, mvars>>

hvars == <<event, idx, s3_key, results, entryRec, handlerOutcome>>
svars == <<issued, submitCount, queriedFor, lastSubmit, queryArn>>
dvars == <<statusResponse, result_s3_uri, fetchLog, downloadOutcome>>

(***************************************************************************)
(* Bounds of the model.                                                    *)
(***************************************************************************)
MaxRecords == 2     \* longest batch of records in an event
MaxN == 4           \* largest max_retries process_with_retry is called with
MaxBudget == 25     \* largest max_wait_time wait_for_completion is called with
NumRuns == 2        \* runs of the promoter CLI on the same blueprint
MaxSegments == 3    \* most segments in the key of an output location

(***************************************************************************)
(* Program constants.                                                      *)
(***************************************************************************)
DefaultMaxRetries == 3
DefaultMaxWait == 300
TimeoutMinutes == 15        \* bda_stack.py:66: Duration.minutes(15)
PollInterval == 10

Unbound == <<"<unbound>">>      \* a local variable that was never assigned
Missing == "<missing>"          \* a field absent from a record (a string field)
MissingKey == <<"<missing>">>   \* the object key absent from a record
None == "<none>"
NoUri == <<>>

(***************************************************************************)
(* String helpers on token sequences.                                      *)
(***************************************************************************)
StartsWith(s, p) == Len(s) >= Len(p) /\ SubSeq(s, 1, Len(p)) = p

SetMax(S) == CHOOSE x \in S : \A y \in S : y <= x
SetMin(S) == CHOOSE x \in S : \A y \in S : x <= y

Occurrences(s, sep) == {i \in 1..Len(s) : s[i] = sep}

\* s.split(sep)[-1]
SplitLast(s, sep) ==
    IF Occurrences(s, sep) = {} THEN s
    ELSE SubSeq(s, SetMax(Occurrences(s, sep)) + 1, Len(s))

\* s.split(sep)[0]
SplitFirst(s, sep) ==
    IF Occurrences(s, sep) = {} THEN s
    ELSE SubSeq(s, 1, SetMin(Occurrences(s, sep)) - 1)

\* urllib.parse.unquote_plus: "+" becomes a space, then percent escapes are decoded
UnquoteToken(t) ==
    CASE t = "+" -> " "
      [] t = "%2F" -> "/"
      [] t = "%2E" -> "."
      [] OTHER -> t

unquote_plus(s) == [i \in 1..Len(s) |-> UnquoteToken(s[i])]

(***************************************************************************)
(* The records of a storage-write event.  A record holds                   *)
(* record['s3']['bucket']['name'] and record['s3']['object']['key'] (still *)
(* URL-encoded); either field can be absent.                               *)
(***************************************************************************)
KeyResume1 == <<"input", "/", "resume1", ".", "pdf">>
KeyCv      == <<"input", "/", "cv", ".", "docx">>
KeyOther   == <<"other", "/", "foo", ".", "pdf">>
KeyMulti   == <<"input", "/", "john", ".", "doe", ".", "pdf">>
KeyNested  == <<"input", "/", "2024", "/", "resume1", ".", "pdf">>
KeyNoExt   == <<"input", "/", "README">>
KeyEncoded == <<"input", "%2F", "my", "+", "cv", ".", "pdf">>
KeyInputs  == <<"inputs", "/", "resume1", ".", "pdf">>

AllKeys == {KeyResume1, KeyCv, KeyOther, KeyMulti, KeyNested, KeyNoExt,
            KeyEncoded, KeyInputs}

Rec(b, k) == [bucket |-> b, key |-> k]

\* the records batches are built from
CoreRecords == {Rec("bkt", KeyResume1), Rec("bkt", KeyOther),
                Rec(Missing, KeyCv), Rec(Missing, KeyOther)}

\* every record, used in events of a single record
AllRecords == {Rec(b, k) : b \in {"bkt", Missing}, k \in AllKeys \cup {MissingKey}}

SeqsUpTo(S, n) == UNION {[1..m -> S] : m \in 0..n}

Events == SeqsUpTo(CoreRecords, MaxRecords) \cup {<<r>> : r \in AllRecords}

(***************************************************************************)
(* lambda_handler: the pure parts of the loop body.                        *)
(***************************************************************************)
InputPrefix == <<"input", "/">>

\* handler.py:49-50 raise KeyError when the bucket name or the key is absent
ParseRaises(rec) == rec.bucket = Missing \/ rec.key = MissingKey

\* handler.py:53
UnderInputPrefix(key) == StartsWith(key, InputPrefix)

\* handler.py:59
filename(key) == SplitFirst(SplitLast(key, "/"), ".")

\* handler.py:60
output_key(key) == <<"output", "/">> \o filename(key) \o <<"/">>

\* handler.py:63
InputUri(bucket, key) == <<"s3://", bucket, "/">> \o key

\* handler.py:64
OutputUri(bucket, key) ==
    <<"s3://", bucket, "/">> \o output_key(key) \o <<"job_metadata.json">>

\* a slip of handler.py:73: the status is written as a constant
SuccessEntryAlwaysSuccess(key, out, status, arn) ==
    [kind |-> "ok", input_file |-> key, output_path |-> out,
     status |-> "Success", invocation_arn |-> arn, error |-> None]

\* handler.py:70-75
SuccessEntry(key, out, status, arn) ==
    [kind |-> "ok", input_file |-> key, output_path |-> out,
     status |-> status, invocation_arn |-> arn, error |-> None]

\* handler.py:79-82
ErrorEntry(key, err) ==
    [kind |-> "error", input_file |-> key, output_path |-> NoUri,
     status |-> None, invocation_arn |-> 0, error |-> err]

(***************************************************************************)
(* Outcomes of a call: returned (with a value) or raised (with an error).  *)
(***************************************************************************)
NoOutcome == [kind |-> "none", arn |-> 0, status |-> None, error |-> None, at |-> 0]

Returned(arn, status) ==
    [kind |-> "returned", arn |-> arn, status |-> status, error |-> None, at |-> 0]

\* an exception raised during attempt number `at` (zero-indexed)
Raised(err, at) ==
    [kind |-> "raised", arn |-> 0, status |-> None, error |-> err, at |-> at]

\* process_with_retry ran off the end of its for loop: Python returns None
FellThrough == [kind |-> "none_returned", arn |-> 0, status |-> None, error |-> None, at |-> 0]

NoHandlerOutcome ==
    [kind |-> "none", statusCode |-> 0, processed_files |-> 0, results |-> <<>>,
     error |-> None]

(***************************************************************************)
(* The automation service's answers.                                       *)
(***************************************************************************)
StatusValues == {"Created", "InProgress", "Success", "ServiceError", "ClientError"}

\* the statuses after which the service does no more work on a job
TerminalStatuses == {"Success", "ServiceError", "ClientError"}

\* process_resume: the service call raises ClientError (re-raised at
\* bda_client.py:83-85), or the response lacks 'invocationArn' (KeyError at :81)
SubmitErrors == {"SubmitClientError", "SubmitKeyError"}

\* check_status raises ClientError (bda_client.py:95-97), or the response lacks
\* 'status' (KeyError at bda_client.py:107)
StatusErrors == {"StatusClientError", "StatusKeyError"}

(***************************************************************************)
(* The policies of the two loops.                                          *)
(***************************************************************************)
\* a slip of handler.py:30: 2 * attempt for 2 ** attempt
BackoffLinear(a) == 2 * a

\* handler.py:30
Backoff(a) == 2 ^ a

\* a slip of handler.py:27: attempt == max_retries
IsFinalAttemptOffByOne(a, n) == a = n

\* handler.py:27
IsFinalAttempt(a, n) == a = n - 1

\* a slip of bda_client.py:104: <= for <
ShouldQueryInclusive(e, budget) == e <= budget

\* bda_client.py:104
ShouldQuery(e, budget) == e < budget

\* a slip of bda_client.py:107-112: the elif branch left out
ReturnsOnlySuccess(st) == st = "Success"

\* bda_client.py:107-112
ReturnsStatus(st) == st = "Success" \/ st \in {"ServiceError", "ClientError"}

\* bda_client.py:102-117 on a job that never reaches a status the loop returns:
\* the number of check_status calls made before TimeoutError is raised, from
\* e seconds after start_time and q calls made
RECURSIVE QueriesUntilTimeout(_, _, _)
QueriesUntilTimeout(e, budget, q) ==
    IF ShouldQuery(e, budget)
    THEN QueriesUntilTimeout(e + PollInterval, budget, q + 1)
    ELSE q

(***************************************************************************)
(* Returning to the caller.                                                *)
(***************************************************************************)
\* handler.py:70-82: the loop body appends an entry and goes to the next record
HandlerAppend(e) ==
    /\ results' = Append(results, e)
    /\ entryRec' = Append(entryRec, idx)
    /\ idx' = idx + 1
    /\ pc' = "record"
    /\ UNCHANGED <<event, s3_key, handlerOutcome>>

\* process_with_retry hands `out` to its caller
RetryEnds(out) ==
    /\ retryOutcome' = out
    /\ IF entry = "process_with_retry"
       THEN pc' = "done" /\ UNCHANGED hvars
       ELSE IF out.kind = "returned"
            THEN HandlerAppend(SuccessEntry(s3_key, output_key(s3_key),
                                            out.status, out.arn))
            ELSE HandlerAppend(ErrorEntry(s3_key, out.error))

\* time.sleep(dt) (handler.py:32, bda_client.py:115) moves the clock of a
\* timed invocation
Tick(dt) == clock' = IF entry = "invocation" THEN clock + dt ELSE clock

\* handler.py:26-32: the except clause of process_with_retry
Except(err) ==
    /\ caught' = err
    /\ IF IsFinalAttempt(attempt, max_retries)
       THEN RetryEnds(Raised(err, attempt)) /\ UNCHANGED <<attempt, sleepLog, clock>>
       ELSE /\ sleepLog' = Append(sleepLog, Backoff(attempt))
            /\ Tick(Backoff(attempt))
            /\ attempt' = attempt + 1
            /\ pc' = "submit"
            /\ UNCHANGED retryOutcome
            /\ UNCHANGED hvars

\* wait_for_completion hands `out` to its caller
PollEnds(out) ==
    /\ pollOutcome' = out
    /\ IF entry = "wait_for_completion"
       THEN pc' = "done" /\ UNCHANGED <<attempt, sleepLog, retryOutcome, caught, clock>>
            /\ UNCHANGED hvars
       ELSE IF out.kind = "returned"
            THEN RetryEnds(Returned(invocation_arn, out.status))
                 /\ UNCHANGED <<caught, clock>>
                 /\ UNCHANGED <<attempt, sleepLog>>
            ELSE Except(out.error)

(***************************************************************************)
(* lambda_handler (handler.py:35-90).                                      *)
(***************************************************************************)
rvars == <<max_retries, input_s3_uri, output_s3_uri, attempt, sleepLog,
           invocation_arn, retryOutcome, caught>>
pvars == <<max_wait_time, elapsed, queries, pollSleeps, missedTerminal,
           pollOutcome>>

\* handler.py:46-50, 77-82: reading the record raises; the except clause of the
\* loop body formats s3_key, which raises UnboundLocalError when no record before
\* this one assigned it
RecordRaises ==
    /\ pc = "record" /\ idx <= Len(event)
    /\ ParseRaises(event[idx])
    /\ IF s3_key = Unbound
       THEN /\ handlerOutcome' = [kind |-> "raised", statusCode |-> 0,
                                  processed_files |-> 0, results |-> <<>>,
                                  error |-> "UnboundLocalError"]
            /\ pc' = "done"
            /\ UNCHANGED <<event, idx, s3_key, results, entryRec>>
       ELSE HandlerAppend(ErrorEntry(s3_key, "KeyError"))
    /\ UNCHANGED <<entry, clock, mvars, dvars, rvars, pvars, svars>>

\* handler.py:46-54: the key is outside input/: continue
RecordSkipped ==
    /\ pc = "record" /\ idx <= Len(event)
    /\ ~ParseRaises(event[idx])
    /\ ~UnderInputPrefix(unquote_plus(event[idx].key))
    /\ s3_key' = unquote_plus(event[idx].key)
    /\ idx' = idx + 1
    /\ UNCHANGED <<entry, clock, mvars, dvars, pc, event, results, entryRec, handlerOutcome, rvars,
                   pvars, svars>>

\* handler.py:46-68: the key is under input/: call process_with_retry
RecordAccepted ==
    /\ pc = "record" /\ idx <= Len(event)
    /\ ~ParseRaises(event[idx])
    /\ UnderInputPrefix(unquote_plus(event[idx].key))
    /\ s3_key' = unquote_plus(event[idx].key)
    /\ input_s3_uri' = InputUri(event[idx].bucket, s3_key')
    /\ output_s3_uri' = OutputUri(event[idx].bucket, s3_key')
    /\ max_retries' = DefaultMaxRetries
    /\ attempt' = 0
    /\ sleepLog' = <<>>
    /\ retryOutcome' = NoOutcome
    /\ caught' = None
    /\ pc' = "submit"
    /\ UNCHANGED <<entry, clock, mvars, dvars, event, idx, results, entryRec, handlerOutcome,
                   invocation_arn,
                   pvars, svars>>

\* handler.py:84-90
HandlerReturn ==
    /\ pc = "record" /\ idx > Len(event)
    /\ handlerOutcome' = [kind |-> "returned", statusCode |-> 200,
                          processed_files |-> Len(results), results |-> results,
                          error |-> None]
    /\ pc' = "done"
    /\ UNCHANGED <<entry, clock, mvars, dvars, event, idx, s3_key, results, entryRec, rvars, pvars,
                   svars>>

(***************************************************************************)
(* process_with_retry (handler.py:11-32).                                  *)
(***************************************************************************)
\* handler.py:17-23: process_resume returns a job handle; wait_for_completion
\* is called with it (max_wait_time takes its default)
SubmitOk ==
    /\ pc = "submit" /\ attempt < max_retries
    /\ issued' = issued + 1
    /\ invocation_arn' = issued + 1
    /\ submitCount' = [submitCount EXCEPT ![idx] = @ + 1]
    /\ lastSubmit' = [input |-> input_s3_uri, output |-> output_s3_uri]
    /\ max_wait_time' = DefaultMaxWait
    /\ elapsed' = 0
    /\ queries' = 0
    /\ pollSleeps' = 0
    /\ missedTerminal' = FALSE
    /\ pollOutcome' = NoOutcome
    /\ caught' = None
    /\ pc' = "poll"
    /\ UNCHANGED <<entry, clock, mvars, dvars, hvars, max_retries, input_s3_uri, output_s3_uri,
                   attempt, sleepLog, retryOutcome, queriedFor, queryArn>>

\* handler.py:17-21, 26-32: process_resume raises
SubmitRaises ==
    /\ pc = "submit" /\ attempt < max_retries
    /\ \E err \in SubmitErrors : Except(err)
    /\ submitCount' = [submitCount EXCEPT ![idx] = @ + 1]
    /\ lastSubmit' = [input |-> input_s3_uri, output |-> output_s3_uri]
    /\ UNCHANGED <<entry, mvars, dvars, max_retries, input_s3_uri, output_s3_uri,
                   invocation_arn, pvars, issued, queriedFor, queryArn>>

\* handler.py:14: range(max_retries) is empty, the function ends without a
\* return statement
RetryFallThrough ==
    /\ pc = "submit" /\ ~(attempt < max_retries)
    /\ RetryEnds(FellThrough)
    /\ UNCHANGED <<entry, clock, mvars, dvars, max_retries, input_s3_uri, output_s3_uri, attempt,
                   sleepLog, invocation_arn, caught, pvars, svars>>

(***************************************************************************)
(* BDAResumeParser.wait_for_completion (bda_client.py:99-117).             *)
(***************************************************************************)
\* a slip of bda_client.py:105: the handle of the first job is queried
QueriedFirstHandle ==
    /\ queries' = queries + 1
    /\ queryArn' = 1
    /\ queriedFor' = queriedFor \cup {idx}

\* the bookkeeping of one check_status call (bda_client.py:105, 87-93)
Queried ==
    /\ queries' = queries + 1
    /\ queryArn' = invocation_arn
    /\ queriedFor' = queriedFor \cup {idx}

\* bda_client.py:104-112: the status is terminal and is returned
QueryTerminal ==
    /\ pc = "poll" /\ ShouldQuery(elapsed, max_wait_time)
    /\ \E st \in StatusValues : ReturnsStatus(st) /\ PollEnds(Returned(invocation_arn, st))
    /\ Queried
    /\ UNCHANGED <<entry, mvars, dvars, max_retries, input_s3_uri, output_s3_uri,
                   invocation_arn, max_wait_time, elapsed, pollSleeps,
                   missedTerminal, issued, submitCount, lastSubmit>>

\* bda_client.py:104-115: the status is not terminal: sleep, then loop
QueryPending ==
    /\ pc = "poll" /\ ShouldQuery(elapsed, max_wait_time)
    /\ \E st \in StatusValues :
          /\ ~ReturnsStatus(st)
          /\ missedTerminal' = (missedTerminal \/ st \in TerminalStatuses)
    /\ Queried
    /\ elapsed' = elapsed + PollInterval
    /\ pollSleeps' = pollSleeps + 1
    /\ Tick(PollInterval)
    /\ UNCHANGED <<entry, mvars, dvars, pc, hvars, rvars, max_wait_time, pollOutcome,
                   issued, submitCount, lastSubmit>>

\* bda_client.py:104-107: check_status raises, or its answer has no 'status'
QueryRaises ==
    /\ pc = "poll" /\ ShouldQuery(elapsed, max_wait_time)
    /\ \E err \in StatusErrors : PollEnds(Raised(err, attempt))
    /\ Queried
    /\ UNCHANGED <<entry, mvars, dvars, max_retries, input_s3_uri, output_s3_uri,
                   invocation_arn, max_wait_time, elapsed, pollSleeps,
                   missedTerminal, issued, submitCount, lastSubmit>>

\* bda_client.py:104, 117: the budget is used up
PollTimeout ==
    /\ pc = "poll" /\ ~ShouldQuery(elapsed, max_wait_time)
    /\ PollEnds(Raised("TimeoutError", attempt))
    /\ UNCHANGED <<entry, mvars, dvars, max_retries, input_s3_uri, output_s3_uri,
                   invocation_arn, max_wait_time, elapsed, queries, pollSleeps,
                   missedTerminal, svars>>

(***************************************************************************)
(* BDAResumeParser.download_results (bda_client.py:119-144).               *)
(***************************************************************************)
MetadataFile == "job_metadata.json"
ResultFile == <<"0", "/", "custom_output", "/", "0", "/", "result.json">>

\* s.replace(old, new), old one token and new a token sequence: every
\* occurrence of old is replaced
RECURSIVE Replace(_, _, _)
Replace(s, old, new) ==
    IF s = <<>> THEN <<>>
    ELSE (IF Head(s) = old THEN new ELSE <<Head(s)>>) \o Replace(Tail(s), old, new)

\* s.split(sep, 1): the parts, two of them when sep occurs in s
SplitOnce(s, sep) ==
    IF Occurrences(s, sep) = {} THEN <<s>>
    ELSE << SubSeq(s, 1, SetMin(Occurrences(s, sep)) - 1),
            SubSeq(s, SetMin(Occurrences(s, sep)) + 1, Len(s)) >>

\* the segments of a key joined with "/"
RECURSIVE JoinSegments(_)
JoinSegments(segs) ==
    IF Len(segs) = 1 THEN <<segs[1]>>
    ELSE <<segs[1], "/">> \o JoinSegments(Tail(segs))

\* the output locations a status response can carry: s3://bkt/<key> for the
\* keys of 1..MaxSegments segments, and a location with no key at all
Segments == {"output", "resume1", MetadataFile}
OutputLocations ==
    {<<"s3://", "bkt", "/">> \o JoinSegments(segs) :
        segs \in SeqsUpTo(Segments, MaxSegments) \ {<<>>}}
    \cup {<<"s3://", "bkt">>}

\* get_data_automation_status answers: without outputConfiguration, with an
\* outputConfiguration that has no s3Uri, and with an output location
StatusResponses ==
    {[outputConfiguration |-> FALSE, has_s3Uri |-> FALSE, s3Uri |-> NoUri],
     [outputConfiguration |-> TRUE, has_s3Uri |-> FALSE, s3Uri |-> NoUri]}
    \cup {[outputConfiguration |-> TRUE, has_s3Uri |-> TRUE, s3Uri |-> u] :
             u \in OutputLocations}

\* a slip of bda_client.py:125: only the outer field is looked for
LacksOutputConfiguration(st) == ~st.outputConfiguration

\* bda_client.py:125
LacksLocation(st) == ~st.outputConfiguration \/ ~st.has_s3Uri

\* bda_client.py:130
ResultUri(output_uri) == Replace(output_uri, MetadataFile, ResultFile)

\* bda_client.py:131: the parts that are unpacked into bucket, result_key
BucketAndKey(result_uri) == SplitOnce(Replace(result_uri, "s3://", <<>>), "/")

NoDownloadOutcome == [kind |-> "none", error |-> None]
DownloadRaised(err) == [kind |-> "raised", error |-> err]
DownloadReturned == [kind |-> "returned", error |-> None]

\* download_results ends
DownloadEnds(out) ==
    /\ downloadOutcome' = out
    /\ pc' = "done"

\* bda_client.py:123, 95-97, 142-144: check_status raises
DownloadStatusRaises ==
    /\ pc = "status"
    /\ Queried
    /\ DownloadEnds(DownloadRaised("StatusClientError"))
    /\ UNCHANGED <<entry, clock, mvars, hvars, rvars, max_wait_time, elapsed, pollSleeps,
                   missedTerminal, pollOutcome, issued, submitCount, lastSubmit,
                   statusResponse, result_s3_uri, fetchLog>>

\* bda_client.py:123-126: the answer has no output location
DownloadNoLocation ==
    /\ pc = "status"
    /\ LacksLocation(statusResponse)
    /\ Queried
    /\ DownloadEnds(DownloadRaised("OutputUriNotFound"))
    /\ UNCHANGED <<entry, clock, mvars, hvars, rvars, max_wait_time, elapsed, pollSleeps,
                   missedTerminal, pollOutcome, issued, submitCount, lastSubmit,
                   statusResponse, result_s3_uri, fetchLog>>

\* bda_client.py:123-131: the location has no "/" after the bucket: the
\* unpacking into bucket, result_key raises ValueError
DownloadUnpackRaises ==
    /\ pc = "status"
    /\ ~LacksLocation(statusResponse)
    /\ Len(BucketAndKey(ResultUri(statusResponse.s3Uri))) # 2
    /\ Queried
    /\ result_s3_uri' = ResultUri(statusResponse.s3Uri)
    /\ DownloadEnds(DownloadRaised("ValueError"))
    /\ UNCHANGED <<entry, clock, mvars, hvars, rvars, max_wait_time, elapsed, pollSleeps,
                   missedTerminal, pollOutcome, issued, submitCount, lastSubmit,
                   statusResponse, fetchLog>>

\* bda_client.py:123-134: the result location is derived and download_file called
DownloadLocated ==
    /\ pc = "status"
    /\ ~LacksLocation(statusResponse)
    /\ Len(BucketAndKey(ResultUri(statusResponse.s3Uri))) = 2
    /\ Queried
    /\ result_s3_uri' = ResultUri(statusResponse.s3Uri)
    /\ fetchLog' = Append(fetchLog,
          [bucket |-> BucketAndKey(ResultUri(statusResponse.s3Uri))[1],
           key |-> BucketAndKey(ResultUri(statusResponse.s3Uri))[2]])
    /\ pc' = "fetch"
    /\ UNCHANGED <<entry, clock, mvars, hvars, rvars, max_wait_time, elapsed, pollSleeps,
                   missedTerminal, pollOutcome, issued, submitCount, lastSubmit,
                   statusResponse, downloadOutcome>>

\* bda_client.py:134, 142-144: download_file raises
DownloadFetchRaises ==
    /\ pc = "fetch"
    /\ DownloadEnds(DownloadRaised("FetchClientError"))
    /\ UNCHANGED <<entry, clock, mvars, hvars, rvars, pvars, svars,
                   statusResponse, result_s3_uri, fetchLog>>

\* bda_client.py:137-138: the file fetched is not well-formed JSON
DownloadParseRaises ==
    /\ pc = "fetch"
    /\ DownloadEnds(DownloadRaised("JSONDecodeError"))
    /\ UNCHANGED <<entry, clock, mvars, hvars, rvars, pvars, svars,
                   statusResponse, result_s3_uri, fetchLog>>

\* bda_client.py:134-140: the file is fetched and parsed, the results returned
DownloadReturns ==
    /\ pc = "fetch"
    /\ DownloadEnds(DownloadReturned)
    /\ UNCHANGED <<entry, clock, mvars, hvars, rvars, pvars, svars,
                   statusResponse, result_s3_uri, fetchLog>>

\* no call of download_results
InitNoDownload ==
    /\ statusResponse = [outputConfiguration |-> FALSE, has_s3Uri |-> FALSE,
                         s3Uri |-> NoUri]
    /\ result_s3_uri = NoUri
    /\ fetchLog = <<>>
    /\ downloadOutcome = NoDownloadOutcome

(***************************************************************************)
(* Initial states and specifications.                                      *)
(***************************************************************************)
\* no run of the promoter
InitNoPromoter ==
    /\ blueprint = [stage |-> "DEVELOPMENT", schema |-> "schemaA"]
    /\ blueprint0 = blueprint
    /\ ppc = <<>>
    /\ fetched = <<>>
    /\ updateCalls = <<>>
    /\ fetchCalls = <<>>
    /\ exitCode = <<>>
    /\ promotedBefore = <<>>
    /\ outputs = <<>>
    /\ callResults = <<>>

InitFrames ==
    /\ InitNoPromoter
    /\ InitNoDownload
    /\ s3_key = Unbound
    /\ results = <<>>
    /\ entryRec = <<>>
    /\ handlerOutcome = NoHandlerOutcome
    /\ attempt = 0
    /\ sleepLog = <<>>
    /\ retryOutcome = NoOutcome
    /\ caught = None
    /\ clock = 0
    /\ elapsed = 0
    /\ queries = 0
    /\ pollSleeps = 0
    /\ missedTerminal = FALSE
    /\ pollOutcome = NoOutcome
    /\ queriedFor = {}
    /\ lastSubmit = [input |-> NoUri, output |-> NoUri]
    /\ queryArn = 0

\* lambda_handler is invoked with an event
InitHandler ==
    /\ entry = "lambda_handler"
    /\ pc = "record"
    /\ event \in Events
    /\ idx = 1
    /\ max_retries = DefaultMaxRetries
    /\ input_s3_uri = NoUri
    /\ output_s3_uri = NoUri
    /\ invocation_arn = 0
    /\ max_wait_time = DefaultMaxWait
    /\ issued = 0
    /\ submitCount = [i \in 1..Len(event) |-> 0]
    /\ InitFrames

NextHandler ==
    \/ RecordRaises
    \/ RecordSkipped
    \/ RecordAccepted
    \/ HandlerReturn
    \/ SubmitOk
    \/ SubmitRaises
    \/ QueryTerminal
    \/ QueryPending
    \/ QueryRaises
    \/ PollTimeout

Spec == InitHandler /\ [][NextHandler]_vars

\* bda_stack.py:66: the timeout of the processor function, in seconds
LambdaTimeout == TimeoutMinutes * 60

\* the platform invokes lambda_handler with an event of one record and
\* the time the invocation sleeps is counted
InitTimed ==
    /\ entry = "invocation"
    /\ pc = "record"
    /\ event \in {<<r>> : r \in CoreRecords}
    /\ idx = 1
    /\ max_retries = DefaultMaxRetries
    /\ input_s3_uri = NoUri
    /\ output_s3_uri = NoUri
    /\ invocation_arn = 0
    /\ max_wait_time = DefaultMaxWait
    /\ issued = 0
    /\ submitCount = [i \in 1..Len(event) |-> 0]
    /\ InitFrames

SpecTimed == InitTimed /\ [][NextHandler]_vars

\* process_with_retry is called on its own, with any attempt limit
InitRetry ==
    /\ entry = "process_with_retry"
    /\ pc = "submit"
    /\ event = <<>>
    /\ idx = 1
    /\ max_retries \in 0..MaxN
    /\ input_s3_uri = InputUri("bkt", KeyResume1)
    /\ output_s3_uri = OutputUri("bkt", KeyResume1)
    /\ invocation_arn = 0
    /\ max_wait_time = DefaultMaxWait
    /\ issued = 0
    /\ submitCount = <<0>>
    /\ InitFrames

NextRetry ==
    \/ SubmitOk
    \/ SubmitRaises
    \/ RetryFallThrough
    \/ QueryTerminal
    \/ QueryPending
    \/ QueryRaises
    \/ PollTimeout

SpecRetry == InitRetry /\ [][NextRetry]_vars

\* wait_for_completion is called on its own, with any budget, for an issued handle
InitPoll ==
    /\ entry = "wait_for_completion"
    /\ pc = "poll"
    /\ event = <<>>
    /\ idx = 1
    /\ max_retries = DefaultMaxRetries
    /\ input_s3_uri = NoUri
    /\ output_s3_uri = NoUri
    /\ invocation_arn = 1
    /\ max_wait_time \in -1..MaxBudget
    /\ issued = 1
    /\ submitCount = <<0>>
    /\ InitFrames

NextPoll ==
    \/ QueryTerminal
    \/ QueryPending
    \/ QueryRaises
    \/ PollTimeout

SpecPoll == InitPoll /\ [][NextPoll]_vars

\* download_results is called on its own, for an issued handle, with any answer
InitDownload ==
    /\ entry = "download_results"
    /\ pc = "status"
    /\ event = <<>>
    /\ idx = 1
    /\ max_retries = DefaultMaxRetries
    /\ input_s3_uri = NoUri
    /\ output_s3_uri = NoUri
    /\ invocation_arn = 1
    /\ max_wait_time = DefaultMaxWait
    /\ issued = 1
    /\ submitCount = <<0>>
    /\ InitNoPromoter
    /\ s3_key = Unbound
    /\ results = <<>>
    /\ entryRec = <<>>
    /\ handlerOutcome = NoHandlerOutcome
    /\ attempt = 0
    /\ sleepLog = <<>>
    /\ retryOutcome = NoOutcome
    /\ caught = None
    /\ clock = 0
    /\ elapsed = 0
    /\ queries = 0
    /\ pollSleeps = 0
    /\ missedTerminal = FALSE
    /\ pollOutcome = NoOutcome
    /\ queriedFor = {}
    /\ lastSubmit = [input |-> NoUri, output |-> NoUri]
    /\ queryArn = 0
    /\ statusResponse \in StatusResponses
    /\ result_s3_uri = NoUri
    /\ fetchLog = <<>>
    /\ downloadOutcome = NoDownloadOutcome

NextDownload ==
    \/ DownloadStatusRaises
    \/ DownloadNoLocation
    \/ DownloadUnpackRaises
    \/ DownloadLocated
    \/ DownloadFetchRaises
    \/ DownloadParseRaises
    \/ DownloadReturns

SpecDownload == InitDownload /\ [][NextDownload]_vars

(***************************************************************************)
(* The promoter CLI (promote_blueprint.py).  Runs of the CLI are separate  *)
(* processes; their calls to the automation service interleave.            *)
(***************************************************************************)
Runs == 1..NumRuns

Stages == {"DEVELOPMENT", "LIVE", Missing}   \* Missing: no blueprintStage field
Schemas == {"schemaA", "schemaB"}

NoBlueprint == [stage |-> None, schema |-> None]
NoExit == -1

\* promote_blueprint.py:103-104: the identifiers main reads from the outputs
BlueprintArn == "arn:blueprint"
ProjectArn == "arn:project"

\* promote_blueprint.py:66
current_stage(bp) == IF bp.stage = Missing THEN "DEVELOPMENT" ELSE bp.stage

\* a slip of promote_blueprint.py:67: the stage name misspelt
AlreadyLiveMisspelt(bp) == current_stage(bp) = "Live"

\* promote_blueprint.py:67
AlreadyLive(bp) == current_stage(bp) = "LIVE"

\* a slip of promote_blueprint.py:81: a fixed schema is passed, not the one
\* of the blueprint fetched
UpdateArgsFixedSchema(arn, bp) ==
    [blueprintArn |-> arn, blueprintStage |-> "LIVE", schema |-> "schemaA"]

\* a slip of promote_blueprint.py:79: the other identifier is passed
UpdateArgsOfProject(arn, bp) ==
    [blueprintArn |-> ProjectArn, blueprintStage |-> "LIVE", schema |-> bp.schema]

\* promote_blueprint.py:78-82: the arguments of update_blueprint
UpdateArgs(arn, bp) ==
    [blueprintArn |-> arn, blueprintStage |-> "LIVE", schema |-> bp.schema]

\* the automation service applies an update_blueprint call
ApplyUpdate(bp, args) == [stage |-> args.blueprintStage, schema |-> args.schema]

\* a slip of promote_blueprint.py:106: "and" for "or"
IdsMissingBoth(outs) == ~outs.BlueprintArn /\ ~outs.ProjectArn

\* promote_blueprint.py:106
IdsMissing(outs) == ~outs.BlueprintArn \/ ~outs.ProjectArn

\* promote_blueprint.py:101: what get_cdk_outputs can return
Outputs == [BlueprintArn : BOOLEAN, ProjectArn : BOOLEAN]

\* the bookkeeping of the end of one call to the automation service
Called(r, how) == callResults' = [callResults EXCEPT ![r] = Append(@, how)]

Exit(r, code) ==
    /\ ppc' = [ppc EXCEPT ![r] = "exited"]
    /\ exitCode' = [exitCode EXCEPT ![r] = code]

\* promote_blueprint.py:11-51, 101: get_cdk_outputs fails and exits
MainOutputsFail(r) ==
    /\ ppc[r] = "main"
    /\ Exit(r, 1)
    /\ UNCHANGED <<lvars, blueprint0, blueprint, fetched, updateCalls, fetchCalls,
                   promotedBefore, outputs, callResults>>

\* promote_blueprint.py:101-109: a required identifier is not among the outputs
MainMissingIds(r) ==
    /\ ppc[r] = "main"
    /\ \E outs \in Outputs :
          /\ IdsMissing(outs)
          /\ outputs' = [outputs EXCEPT ![r] = <<outs>>]
          /\ Exit(r, 1)
    /\ UNCHANGED <<lvars, blueprint0, blueprint, fetched, updateCalls, fetchCalls,
                   promotedBefore, callResults>>

\* promote_blueprint.py:101-116: both identifiers are there: call promote_to_live
MainCallsPromote(r) ==
    /\ ppc[r] = "main"
    /\ \E outs \in Outputs :
          /\ ~IdsMissing(outs)
          /\ outputs' = [outputs EXCEPT ![r] = <<outs>>]
          /\ ppc' = [ppc EXCEPT ![r] = "fetch"]
    /\ UNCHANGED <<lvars, blueprint0, blueprint, fetched, updateCalls, fetchCalls, exitCode,
                   promotedBefore, callResults>>

\* the bookkeeping of one get_blueprint call
Fetching(r) ==
    /\ fetchCalls' = [fetchCalls EXCEPT ![r] = @ + 1]
    /\ promotedBefore' = [promotedBefore EXCEPT ![r] =
           \E q \in Runs : ppc[q] = "exited" /\ exitCode[q] = 0
                           /\ updateCalls[q] # <<>>]

\* promote_blueprint.py:62-73: the blueprint is already LIVE: return
PromoteAlreadyLive(r) ==
    /\ ppc[r] = "fetch"
    /\ AlreadyLive(blueprint)
    /\ fetched' = [fetched EXCEPT ![r] = blueprint]
    /\ Fetching(r)
    /\ Called(r, "get_blueprint:ok")
    /\ Exit(r, 0)
    /\ UNCHANGED <<lvars, blueprint0, blueprint, updateCalls, outputs>>

\* promote_blueprint.py:62-67: the blueprint is at another stage: go on to update
PromoteFetched(r) ==
    /\ ppc[r] = "fetch"
    /\ ~AlreadyLive(blueprint)
    /\ fetched' = [fetched EXCEPT ![r] = blueprint]
    /\ Fetching(r)
    /\ Called(r, "get_blueprint:ok")
    /\ ppc' = [ppc EXCEPT ![r] = "update"]
    /\ UNCHANGED <<lvars, blueprint0, blueprint, updateCalls, exitCode, outputs>>

\* promote_blueprint.py:62, 91-93: get_blueprint raises
FetchFails(r) ==
    /\ ppc[r] = "fetch"
    /\ Fetching(r)
    /\ Called(r, "get_blueprint:error")
    /\ Exit(r, 1)
    /\ UNCHANGED <<lvars, blueprint0, blueprint, fetched, updateCalls, outputs>>

\* promote_blueprint.py:78-89: update_blueprint succeeds
UpdateOk(r) ==
    /\ ppc[r] = "update"
    /\ updateCalls' = [updateCalls EXCEPT ![r] =
                          Append(@, UpdateArgs(BlueprintArn, fetched[r]))]
    /\ blueprint' = ApplyUpdate(blueprint, UpdateArgs(BlueprintArn, fetched[r]))
    /\ Called(r, "update_blueprint:ok")
    /\ Exit(r, 0)
    /\ UNCHANGED <<lvars, blueprint0, fetched, fetchCalls, promotedBefore, outputs>>

\* promote_blueprint.py:78-82, 91-93: update_blueprint raises
UpdateFails(r) ==
    /\ ppc[r] = "update"
    /\ updateCalls' = [updateCalls EXCEPT ![r] =
                          Append(@, UpdateArgs(BlueprintArn, fetched[r]))]
    /\ Called(r, "update_blueprint:error")
    /\ Exit(r, 1)
    /\ UNCHANGED <<lvars, blueprint0, blueprint, fetched, fetchCalls, promotedBefore,
                   outputs>>

\* NumRuns runs of the CLI on one blueprint, at any stage, with any schema
InitPromote ==
    /\ entry = "main"
    /\ pc = "promoter"
    /\ event = <<>>
    /\ idx = 1
    /\ max_retries = DefaultMaxRetries
    /\ input_s3_uri = NoUri
    /\ output_s3_uri = NoUri
    /\ invocation_arn = 0
    /\ max_wait_time = DefaultMaxWait
    /\ issued = 0
    /\ submitCount = <<0>>
    /\ s3_key = Unbound
    /\ results = <<>>
    /\ entryRec = <<>>
    /\ handlerOutcome = NoHandlerOutcome
    /\ attempt = 0
    /\ sleepLog = <<>>
    /\ retryOutcome = NoOutcome
    /\ caught = None
    /\ clock = 0
    /\ elapsed = 0
    /\ queries = 0
    /\ pollSleeps = 0
    /\ missedTerminal = FALSE
    /\ pollOutcome = NoOutcome
    /\ queriedFor = {}
    /\ lastSubmit = [input |-> NoUri, output |-> NoUri]
    /\ queryArn = 0
    /\ InitNoDownload
    /\ blueprint \in [stage : Stages, schema : Schemas]
    /\ blueprint0 = blueprint
    /\ ppc = [r \in Runs |-> "main"]
    /\ fetched = [r \in Runs |-> NoBlueprint]
    /\ updateCalls = [r \in Runs |-> <<>>]
    /\ fetchCalls = [r \in Runs |-> 0]
    /\ exitCode = [r \in Runs |-> NoExit]
    /\ promotedBefore = [r \in Runs |-> FALSE]
    /\ outputs = [r \in Runs |-> <<>>]
    /\ callResults = [r \in Runs |-> <<>>]

NextPromote ==
    \E r \in Runs :
        \/ MainOutputsFail(r)
        \/ MainMissingIds(r)
        \/ MainCallsPromote(r)
        \/ PromoteAlreadyLive(r)
        \/ PromoteFetched(r)
        \/ FetchFails(r)
        \/ UpdateOk(r)
        \/ UpdateFails(r)

SpecPromote == InitPromote /\ [][NextPromote]_vars

(***************************************************************************)
(* Properties of process_with_retry, checked under SpecRetry.              *)
(***************************************************************************)
\* the backoff waits 1s, 2s, 4s, ..., 2^(n-1)s
ExpectedBackoffs(n) == [i \in 1..n |-> 2 ^ (i - 1)]

\* process_with_retry has ended and its last attempt was attempt number N
EndedOnLastAttempt == pc = "done" /\ attempt = max_retries - 1

\* C1: for every attempt limit N >= 1, when the first N-1 attempts raise and the
\* Nth succeeds, process_with_retry returns the Nth attempt's job handle and
\* final status, after exactly N-1 backoff waits of 1s, 2s, ..., 2^(N-2)s and N
\* submissions, with no wait after the successful attempt.
C1_SuccessOnNthAttempt ==
    (max_retries >= 1 /\ EndedOnLastAttempt /\ retryOutcome.kind = "returned")
    => /\ retryOutcome.arn = issued
       /\ retryOutcome.arn = invocation_arn
       /\ retryOutcome.arn = queryArn
       /\ retryOutcome.status = pollOutcome.status
       /\ pollOutcome.kind = "returned"
       /\ submitCount[1] = max_retries
       /\ sleepLog = ExpectedBackoffs(max_retries - 1)

C1_Witness ==
    /\ max_retries = 3
    /\ EndedOnLastAttempt
    /\ retryOutcome.kind = "returned"
    /\ retryOutcome.status = "Success"
    /\ sleepLog = <<1, 2>>

\* C2 as stated: for all attempt limits N, when every attempt raises,
\* process_with_retry raises the error of attempt N, after exactly N submissions
\* and exactly N-1 backoff waits.
C2_AllFail_AnyLimit ==
    (pc = "done" /\ retryOutcome.kind # "returned")
    => /\ retryOutcome.kind = "raised"
       /\ retryOutcome.at = max_retries - 1
       /\ submitCount[1] = max_retries
       /\ Len(sleepLog) = max_retries - 1

\* C2, amended: for all attempt limits N >= 1, when every attempt raises,
\* process_with_retry raises the error of attempt N, after exactly N submissions
\* and exactly N-1 backoff waits (1s, 2s, ...), none after the final failure.
C2_AllFail ==
    (max_retries >= 1 /\ pc = "done" /\ retryOutcome.kind # "returned")
    => /\ retryOutcome.kind = "raised"
       /\ retryOutcome.at = max_retries - 1
       /\ attempt = max_retries - 1
       /\ submitCount[1] = max_retries
       /\ sleepLog = ExpectedBackoffs(max_retries - 1)

C2_Witness ==
    /\ max_retries = 3
    /\ pc = "done"
    /\ retryOutcome.kind = "raised"
    /\ retryOutcome.error = "TimeoutError"
    /\ Len(sleepLog) = 2

(***************************************************************************)
(* Properties of lambda_handler, checked under Spec.                       *)
(***************************************************************************)
DecodedKeys(ev) == [i \in 1..Len(ev) |-> unquote_plus(ev[i].key)]

\* the keys of the records under input/, in the order of the event
PrefixKeys(ev) == SelectSeq(DecodedKeys(ev), UnderInputPrefix)

InputFiles(rs) == [j \in 1..Len(rs) |-> rs[j].input_file]

\* every record of the batch can be read (bucket name and key are there)
Readable(ev) == \A i \in 1..Len(ev) : ~ParseRaises(ev[i])

\* what C3 says of the summary
OneEntryPerPrefixRecord ==
    /\ handlerOutcome.kind = "returned"
    /\ handlerOutcome.results = results
    /\ InputFiles(results) = PrefixKeys(event)
    /\ handlerOutcome.processed_files = Len(PrefixKeys(event))
    /\ \A j \in 1..Len(results) :
          /\ results[j].kind = "error" => submitCount[entryRec[j]] = DefaultMaxRetries
          /\ results[j].kind = "ok" => submitCount[entryRec[j]] \in 1..DefaultMaxRetries

\* C3: for every batch, a record whose processing fails does not stop the
\* records after it: lambda_handler returns a summary with exactly one entry per
\* record under input/, in the order of the event (an error entry for a record
\* whose retries were used up, a success entry otherwise), and processed_files is
\* the number of entries.
C3_BatchIsolation == pc = "done" => OneEntryPerPrefixRecord

\* (C3 does hold of the batches in which every record can be read.)
BatchIsolationOfReadableBatches ==
    (pc = "done" /\ Readable(event)) => OneEntryPerPrefixRecord

\* C4: every error entry of the summary carries the key of the record it was
\* appended for, never the key of an earlier record of the batch.
C4_ErrorEntryNamesItsRecord ==
    \A j \in 1..Len(results) :
        results[j].kind = "error" =>
            LET i == entryRec[j] IN
            IF event[i].key # MissingKey
            THEN results[j].input_file = unquote_plus(event[i].key)
            ELSE \A h \in 1..(i - 1) :
                    results[j].input_file # unquote_plus(event[h].key)

\* C5: whatever records of a batch fail, lambda_handler returns the summary with
\* statusCode 200: no exception raised inside the per-record loop escapes it.
C5_NoExceptionEscapes ==
    pc = "done" => /\ handlerOutcome.kind = "returned"
                   /\ handlerOutcome.statusCode = 200

\* C6: a record whose decoded key is outside input/ gets no submit call, no
\* status query and no entry in the summary (no entry names its key), and the
\* loop goes on to the records after it.
C6_OutsidePrefixIgnored ==
    \A i \in 1..Len(event) :
        (~ParseRaises(event[i]) /\ ~UnderInputPrefix(unquote_plus(event[i].key)))
        => /\ submitCount[i] = 0
           /\ i \notin queriedFor
           /\ \A j \in 1..Len(results) :
                 /\ entryRec[j] # i
                 /\ results[j].input_file # unquote_plus(event[i].key)
           /\ ~(pc = "done" /\ idx = i)

\* (The filter itself is right: no submit call, no status query and no entry
\* appended while the loop is at a record outside input/.)
OutsidePrefixNeverSubmitted ==
    \A i \in 1..Len(event) :
        (~ParseRaises(event[i]) /\ ~UnderInputPrefix(unquote_plus(event[i].key)))
        => /\ submitCount[i] = 0
           /\ i \notin queriedFor
           /\ \A j \in 1..Len(results) : entryRec[j] # i

\* the last path segment of a key without its extension (what follows its last
\* dot; a leading dot starts no extension)
BaseName(key) ==
    LET seg == SplitLast(key, "/")
        dots == Occurrences(seg, ".") \ {1}
    IN  IF dots = {} THEN seg ELSE SubSeq(seg, 1, SetMax(dots) - 1)

\* C7: for every key under input/ the output prefix is output/<base>/ and the
\* location submitted is s3://<bucket>/output/<base>/job_metadata.json, where
\* <base> is the last path segment of the key without its extension.
C7_OutputFromBaseName ==
    (entry = "lambda_handler" /\ pc \in {"submit", "poll"})
    => /\ output_key(s3_key) = <<"output", "/">> \o BaseName(s3_key) \o <<"/">>
       /\ output_s3_uri = <<"s3://", event[idx].bucket, "/", "output", "/">>
                          \o BaseName(s3_key) \o <<"/", "job_metadata.json">>

\* (The example of C7: input/resume1.pdf gives output/resume1/.)
OutputOfResume1 ==
    (entry = "lambda_handler" /\ pc \in {"submit", "poll"}
        /\ s3_key = KeyResume1)
    => /\ output_key(s3_key) = <<"output", "/", "resume1", "/">>
       /\ output_s3_uri = <<"s3://", "bkt", "/", "output", "/", "resume1", "/",
                            "job_metadata.json">>

(***************************************************************************)
(* Properties of wait_for_completion, checked under SpecPoll.              *)
(***************************************************************************)
\* it returned the first terminal status it saw, with the query that saw it
ReturnedFirstTerminal ==
    /\ pollOutcome.kind = "returned"
    /\ pollOutcome.status \in TerminalStatuses
    /\ ~missedTerminal
    /\ queries = pollSleeps + 1

\* it raised TimeoutError: every status seen was non-terminal, the budget is gone
TimedOut ==
    /\ pollOutcome.kind = "raised"
    /\ pollOutcome.error = "TimeoutError"
    /\ ~missedTerminal
    /\ queries = pollSleeps
    /\ elapsed >= max_wait_time

\* it raised the error of a status query that failed
QueryFailed ==
    /\ pollOutcome.kind = "raised"
    /\ pollOutcome.error \in StatusErrors
    /\ ~missedTerminal
    /\ queries = pollSleeps + 1

\* every query that did not end the call was followed by one wait of 10s
FixedInterval ==
    /\ elapsed = PollInterval * pollSleeps
    /\ pc = "poll" => queries = pollSleeps

\* C8 as stated: wait_for_completion ends in exactly one of two ways: it
\* returns the first terminal status it sees, or it raises the timeout error;
\* successive queries are 10s apart.
C8_ReturnsOrTimesOut ==
    /\ FixedInterval
    /\ pc = "done" => (ReturnedFirstTerminal \/ TimedOut)

\* C8, amended: wait_for_completion ends in exactly one of three ways: it
\* returns the first terminal status it sees and queries no further, it raises
\* the timeout error when every status seen within the budget was non-terminal,
\* or it raises the error of a status query that failed; successive queries are
\* 10s apart.
C8_ReturnsTimesOutOrQueryFails ==
    /\ FixedInterval
    /\ pc = "done" => (ReturnedFirstTerminal \/ TimedOut \/ QueryFailed)

C8_Witness ==
    /\ pc = "done"
    /\ TimedOut
    /\ queries = 2
    /\ elapsed = 20

\* the call ended in a timeout and its budget was below one polling interval
TimedOutOnSmallBudget ==
    /\ pc = "done"
    /\ pollOutcome.error = "TimeoutError"
    /\ max_wait_time < PollInterval

\* C9 as stated: with a budget below one polling interval and a job that never
\* ends, the number of status queries made before the timeout is one number k,
\* 0 or 1, the same for every such budget.
C9_SameCountForEverySmallBudget ==
    TimedOutOnSmallBudget
    => \E k \in {0, 1} :
          /\ queries = k
          /\ \A b \in 0..(PollInterval - 1) : QueriesUntilTimeout(0, b, 0) = k

\* C9, amended: with a budget below one polling interval and a job that never
\* ends, wait_for_completion makes exactly one status query (and one 10s wait)
\* before the timeout when the budget is positive, and no query when it is zero
\* or negative.
C9_OneQueryUnlessBudgetZero ==
    TimedOutOnSmallBudget
    => /\ queries = (IF max_wait_time > 0 THEN 1 ELSE 0)
       /\ pollSleeps = queries
       /\ queries = QueriesUntilTimeout(0, max_wait_time, 0)

C9_Witness ==
    /\ TimedOutOnSmallBudget
    /\ max_wait_time = 5
    /\ queries = 1
    /\ elapsed = 10

(***************************************************************************)
(* Properties of the promoter, checked under SpecPromote.                  *)
(***************************************************************************)
\* run r made an update_blueprint call that succeeded
Promoted(r) == ppc[r] = "exited" /\ exitCode[r] = 0 /\ updateCalls[r] # <<>>

\* C10: a run that fetches the blueprint at stage LIVE makes no update_blueprint
\* call and exits with 0; so every run that starts after a successful promotion
\* makes no mutating call, and the blueprint stays as the promotion left it
\* (stage LIVE, schema as before).
C10_PromotionIdempotent ==
    /\ \A r \in Runs :
          fetched[r].stage = "LIVE"
          => updateCalls[r] = <<>> /\ ppc[r] = "exited" /\ exitCode[r] = 0
    /\ \A r \in Runs :
          promotedBefore[r]
          => /\ updateCalls[r] = <<>>
             /\ fetched[r] # NoBlueprint => fetched[r].stage = "LIVE"
    /\ (\E q \in Runs : Promoted(q))
          => blueprint = [stage |-> "LIVE", schema |-> blueprint0.schema]

C10_Witness ==
    \E r \in Runs :
        /\ promotedBefore[r]
        /\ blueprint0.stage # "LIVE"
        /\ fetched[r].stage = "LIVE"
        /\ ppc[r] = "exited"
        /\ exitCode[r] = 0
        /\ updateCalls[r] = <<>>

(***************************************************************************)
(* Properties of promote_to_live and main: the calls and the exit code.    *)
(***************************************************************************)
\* the run fetched the blueprint at a stage other than LIVE
FetchedNotLive(r) == fetched[r] # NoBlueprint /\ fetched[r].stage # "LIVE"

\* C11: a run that fetched the blueprint at a stage other than LIVE makes
\* exactly one update_blueprint call: none before the update step, one once
\* it has exited.  The call names the blueprint the run was given, sets the
\* stage to LIVE and passes the schema just fetched, and has no other
\* argument; after a successful call the blueprint differs from the one
\* fetched in its stage only.
C11_OneUpdateWithFetchedSchema ==
    \A r \in Runs :
        FetchedNotLive(r) =>
            /\ (ppc[r] = "update" => updateCalls[r] = <<>>)
            /\ (ppc[r] = "exited" =>
                   updateCalls[r] =
                       << [blueprintArn |-> BlueprintArn,
                           blueprintStage |-> "LIVE",
                           schema |-> fetched[r].schema] >>)
            /\ (Promoted(r) =>
                   blueprint = [fetched[r] EXCEPT !.stage = "LIVE"])

C11_Witness ==
    \E r \in Runs :
        /\ FetchedNotLive(r)
        /\ fetched[r].stage = Missing
        /\ fetched[r].schema = "schemaB"
        /\ Promoted(r)
        /\ Len(updateCalls[r]) = 1

Range(f) == {f[i] : i \in DOMAIN f}

\* the run made no call to the automation service
NoServiceCall(r) ==
    fetchCalls[r] = 0 /\ updateCalls[r] = <<>> /\ callResults[r] = <<>>

\* the outputs the run read lack the blueprint or the project identifier
LacksAnId(r) ==
    /\ outputs[r] # <<>>
    /\ \E id \in {"BlueprintArn", "ProjectArn"} : ~outputs[r][1][id]

\* the run promoted the blueprint, or found it LIVE and left it alone
SucceededOrNoOp(r) ==
    \/ callResults[r] = <<"get_blueprint:ok", "update_blueprint:ok">>
    \/ callResults[r] = <<"get_blueprint:ok">> /\ AlreadyLive(fetched[r])

\* C12: a run that has exited has exit code 0 exactly when it promoted the
\* blueprint or found it already LIVE, and a non-zero code when its fetch
\* raised, its update raised or a required identifier was missing; a run
\* with a missing identifier makes no call to the automation service, and a
\* run whose fetch raised makes no update call.
C12_ExitCode ==
    \A r \in Runs :
        /\ (LacksAnId(r) => NoServiceCall(r))
        /\ ("get_blueprint:error" \in Range(callResults[r]) => updateCalls[r] = <<>>)
        /\ (ppc[r] = "exited" =>
               /\ (exitCode[r] = 0 <=> SucceededOrNoOp(r))
               /\ (~SucceededOrNoOp(r) => exitCode[r] > 0)
               /\ (LacksAnId(r) => exitCode[r] > 0)
               /\ ("get_blueprint:error" \in Range(callResults[r]) => exitCode[r] > 0)
               /\ ("update_blueprint:error" \in Range(callResults[r]) =>
                      exitCode[r] > 0))

C12_Witness ==
    \E r, q \in Runs :
        /\ ppc[r] = "exited" /\ ppc[q] = "exited"
        /\ outputs[r] = << [BlueprintArn |-> TRUE, ProjectArn |-> FALSE] >>
        /\ exitCode[r] = 1
        /\ callResults[q] = <<"get_blueprint:ok", "update_blueprint:error">>
        /\ exitCode[q] = 1

(***************************************************************************)
(* Properties of download_results, checked under SpecDownload.             *)
(***************************************************************************)
\* the location ends in the metadata file name
EndsInMetadataFile(u) == u # <<>> /\ u[Len(u)] = MetadataFile

\* the status answer carried a location and the result location was derived
Derived == pc = "fetch" \/ fetchLog # <<>>

\* the location with its last token, the metadata file name, replaced
SuffixReplaced(u) == SubSeq(u, 1, Len(u) - 1) \o ResultFile

\* C13: for every output location that ends in job_metadata.json, the result
\* location is that location with the suffix, and nothing else, replaced by
\* 0/custom_output/0/result.json, and the one object fetched is in the
\* location's bucket under the location's key with the suffix replaced.
C13_OnlySuffixReplaced ==
    (Derived /\ EndsInMetadataFile(statusResponse.s3Uri)) =>
        /\ result_s3_uri = SuffixReplaced(statusResponse.s3Uri)
        /\ fetchLog =
              << [bucket |-> <<statusResponse.s3Uri[2]>>,
                  key |-> SubSeq(SuffixReplaced(statusResponse.s3Uri), 4,
                                 Len(SuffixReplaced(statusResponse.s3Uri)))] >>

\* the same for the locations in which the metadata file name occurs once
OnlySuffixReplacedWhenNameOccursOnce ==
    (Derived /\ EndsInMetadataFile(statusResponse.s3Uri)
       /\ Cardinality(Occurrences(statusResponse.s3Uri, MetadataFile)) = 1) =>
        /\ result_s3_uri = SuffixReplaced(statusResponse.s3Uri)
        /\ fetchLog =
              << [bucket |-> <<statusResponse.s3Uri[2]>>,
                  key |-> SubSeq(SuffixReplaced(statusResponse.s3Uri), 4,
                                 Len(SuffixReplaced(statusResponse.s3Uri)))] >>

NameOccursOnceWitness ==
    /\ pc = "done"
    /\ downloadOutcome.kind = "returned"
    /\ statusResponse.s3Uri =
          <<"s3://", "bkt", "/", "output", "/", "resume1", "/", MetadataFile>>

\* C14: when the status answer has no outputConfiguration, or no s3Uri in
\* it, download_results raises the "Output S3 URI not found" error after
\* exactly one status query and without any download_file call.
C14_NoLocationFailsBeforeFetch ==
    /\ ((~statusResponse.outputConfiguration \/ ~statusResponse.has_s3Uri) =>
            fetchLog = <<>> /\ queries <= 1)
    /\ (( /\ pc = "done"
          /\ (~statusResponse.outputConfiguration \/ ~statusResponse.has_s3Uri)
          /\ downloadOutcome # DownloadRaised("StatusClientError")) =>
            /\ downloadOutcome = DownloadRaised("OutputUriNotFound")
            /\ queries = 1
            /\ queryArn = invocation_arn
            /\ fetchLog = <<>>)

C14_Witness ==
    /\ pc = "done"
    /\ statusResponse.outputConfiguration
    /\ ~statusResponse.has_s3Uri
    /\ downloadOutcome = DownloadRaised("OutputUriNotFound")
    /\ queries = 1

(***************************************************************************)
(* Properties of the submit/poll cycle inside lambda_handler, checked      *)
(* under Spec.                                                             *)
(***************************************************************************)
\* the entry a step appends to results
Appended == results'[Len(results')]

\* one step keeps the handle discipline: a submit that returns a handle is
\* made for the record the loop is at and leaves that handle in
\* invocation_arn; polling changes neither the handle, the record nor the
\* attempt; a status query asks about that handle, the latest one issued; a
\* success entry carries the handle of the query that gave its status
HandleDiscipline ==
    /\ (issued' # issued =>
           /\ pc = "submit" /\ pc' = "poll"
           /\ invocation_arn' = issued'
           /\ idx' = idx /\ attempt' = attempt
           /\ lastSubmit'.input =
                  InputUri(event[idx].bucket, unquote_plus(event[idx].key)))
    /\ (pc = "poll" /\ pc' = "poll" =>
           UNCHANGED <<invocation_arn, issued, idx, attempt>>)
    /\ (queries' = queries + 1 =>
           /\ pc = "poll"
           /\ invocation_arn = issued
           /\ queryArn' = invocation_arn)
    /\ (Len(results') > Len(results) /\ Appended.kind = "ok" =>
           /\ queries' = queries + 1
           /\ Appended.invocation_arn = queryArn'
           /\ Appended.status \in TerminalStatuses
           /\ pollOutcome' = Returned(queryArn', Appended.status)
           /\ entryRec'[Len(entryRec')] = idx)

\* C15: every status query uses the job handle returned by the submit of the
\* current attempt for the current record, and the handle in a success entry
\* is the handle whose final status the entry reports.
C15_QueriesUseCurrentHandle == [][HandleDiscipline]_vars

C15_Witness ==
    \E j \in DOMAIN results :
        /\ results[j].kind = "ok"
        /\ results[j].invocation_arn = 2
        /\ entryRec[j] = 1
        /\ submitCount[1] = 2
        /\ queryArn = 2

\* the errors a response with a missing field gives: no 'invocationArn' in
\* the submit response, no 'status' in the status response
MalformedResponseErrors == {"SubmitKeyError", "StatusKeyError"}

\* C16: once a submit or status response with a missing field has been
\* received, process_with_retry has ended by raising that error: it is not
\* at a further submit or status query, and it has made no backoff wait
\* after the attempt that received the response.
C16_MalformedResponseNotRetried ==
    caught \in MalformedResponseErrors =>
        /\ pc \notin {"submit", "poll"}
        /\ retryOutcome.kind = "raised"
        /\ retryOutcome.error = caught
        /\ Len(sleepLog) = retryOutcome.at

\* what the code does: the error is raised at once only on the last attempt
MalformedResponseRaisedOnLastAttempt ==
    (caught \in MalformedResponseErrors /\ pc \notin {"submit", "poll"}) =>
        /\ retryOutcome = Raised(caught, max_retries - 1)
        /\ Len(sleepLog) = max_retries - 1

\* the terminal statuses that report a failure
FailureStatuses == TerminalStatuses \ {"Success"}

\* one step treats a reported failure as final: a query that is answered
\* with ServiceError or ClientError ends the polling and the retry loop in
\* that step, with no backoff wait and no further submit, and appends the
\* record's entry with that status and the job's handle
FailureSurfaced ==
    /\ ~missedTerminal'
    /\ (pollOutcome'.kind = "returned" /\ queries' = queries + 1
          /\ pollOutcome'.status \in FailureStatuses =>
           /\ pollOutcome'.arn = invocation_arn
           /\ retryOutcome' = Returned(invocation_arn, pollOutcome'.status)
           /\ UNCHANGED <<sleepLog, attempt, issued, submitCount>>
           /\ pc' = "record"
           /\ Len(results') = Len(results) + 1
           /\ Appended.kind = "ok"
           /\ Appended.status = pollOutcome'.status
           /\ Appended.invocation_arn = invocation_arn
           /\ Appended.input_file = s3_key)
    /\ (Len(results') > Len(results) /\ Appended.status = "Success" =>
           pollOutcome'.status = "Success")

\* C17: a status of ServiceError or ClientError is returned by
\* wait_for_completion after the query that reported it, returned by
\* process_with_retry with the job handle without a backoff wait or a
\* resubmission, and written into the record's entry, which never says
\* Success for it.
C17_FailureStatusSurfaced == [][FailureSurfaced]_vars

C17_Witness ==
    \E j \in DOMAIN results :
        /\ results[j].kind = "ok"
        /\ results[j].status = "ServiceError"
        /\ results[j].invocation_arn = 1
        /\ submitCount[entryRec[j]] = 1
        /\ sleepLog = <<>>
        /\ pc = "record"

(***************************************************************************)
(* Properties of the time spent waiting.                                   *)
(***************************************************************************)
\* C18: counting the waits between queries only, wait_for_completion ends
\* (returns or raises) no later than max_wait_time seconds after it was
\* called, for every budget and every sequence of statuses.  Checked under
\* SpecPoll.
C18_EndsWithinBudget ==
    (pc = "done" /\ max_wait_time >= 0) => elapsed <= max_wait_time

\* what the code keeps to: the last wait begins within the budget, so the
\* call ends less than one polling interval after it, and within the budget
\* when the budget is a multiple of the interval
EndsWithinBudgetRoundedUp ==
    (pc = "done" /\ max_wait_time >= 0) =>
        /\ elapsed < max_wait_time + PollInterval
        /\ (max_wait_time % PollInterval = 0 => elapsed <= max_wait_time)

\* the longest a record can take: every attempt polls to its timeout
LongestRecordTime ==
    DefaultMaxRetries * DefaultMaxWait + (2 ^ (DefaultMaxRetries - 1) - 1)

\* C19: the time lambda_handler has spent sleeping on a single record, with
\* the default attempt limit and wait budget, never exceeds the timeout of
\* the processor function.  Checked under SpecTimed.
C19_RecordWithinLambdaTimeout == clock <= LambdaTimeout

\* what the code keeps to
RecordWithinLongestTime == clock <= LongestRecordTime

LongestRecordTimeReached ==
    /\ clock = LongestRecordTime
    /\ clock > LambdaTimeout
    /\ pc = "record"
    /\ results # <<>>
    /\ results[1].error = "TimeoutError"

(***************************************************************************)
(* Properties of the jobs of one invocation, checked under Spec.           *)
(***************************************************************************)
\* record i is readable and under input/: process_with_retry is called for it
Accepted(i) ==
    /\ ~ParseRaises(event[i])
    /\ UnderInputPrefix(unquote_plus(event[i].key))

\* the jobs submitted so far for which no terminal status has been reported:
\* a job whose terminal status is reported gets its handle into an entry
NonTerminalJobs ==
    {h \in 1..issued : \A j \in DOMAIN results : results[j].invocation_arn # h}

\* every submit call for the record the loop is at names the record's input
\* and output location; a record gets at most max_retries submit calls, and
\* at least one when process_with_retry was called for it
SameLocationAndBoundedSubmissions ==
    /\ ((pc \in {"submit", "poll"} /\ submitCount[idx] > 0) =>
           lastSubmit =
               [input |-> InputUri(event[idx].bucket, unquote_plus(event[idx].key)),
                output |-> OutputUri(event[idx].bucket, unquote_plus(event[idx].key))])
    /\ \A i \in 1..Len(event) :
           /\ submitCount[i] <= DefaultMaxRetries
           /\ (i < idx /\ Accepted(i) => submitCount[i] >= 1)
           /\ (~Accepted(i) => submitCount[i] = 0)

\* C20: at most one submitted job is non-terminal at any time (a job is
\* submitted only after every earlier job was reported terminal), every
\* resubmission for a record uses the record's input and output location,
\* and a record gets between 1 and max_retries submissions.
C20_OneJobAtATime ==
    /\ Cardinality(NonTerminalJobs) <= 1
    /\ SameLocationAndBoundedSubmissions

\* two jobs for the same record and output location: the first one was given
\* up without a terminal status, the second one has just been submitted
TwoJobsOnOneLocation ==
    /\ pc = "poll"
    /\ idx = 1
    /\ issued = 2
    /\ attempt = 1
    /\ caught = None
    /\ sleepLog = <<1>>
    /\ queries = 0
    /\ NonTerminalJobs = {1, 2}
    /\ lastSubmit.output = OutputUri(event[1].bucket, unquote_plus(event[1].key))

(***************************************************************************)
(* Concurrent runs of the promoter, checked under SpecPromote.             *)
(***************************************************************************)
\* run r went through main and promote_to_live and none of its calls raised
RanWithoutError(r) ==
    /\ ppc[r] = "exited"
    /\ callResults[r] # <<>>
    /\ \A i \in DOMAIN callResults[r] :
          callResults[r][i] \in {"get_blueprint:ok", "update_blueprint:ok"}

\* C21: runs of the promoter started on the same blueprint at a stage other
\* than LIVE, with their get_blueprint and update_blueprint calls interleaved
\* in any order and no other writer: each run makes at most one
\* update_blueprint call, the schema of the blueprint is never changed, every
\* run whose calls were answered reports success, and once such a run has
\* ended the blueprint is at stage LIVE with the schema it had before.
C21_ConcurrentRunsConverge ==
    blueprint0.stage # "LIVE" =>
        /\ \A r \in Runs : Len(updateCalls[r]) <= 1
        /\ blueprint.schema = blueprint0.schema
        /\ blueprint.stage \in {blueprint0.stage, "LIVE"}
        /\ \A r \in Runs :
              RanWithoutError(r) =>
                  /\ exitCode[r] = 0
                  /\ blueprint = [stage |-> "LIVE", schema |-> blueprint0.schema]

\* the race: both runs fetched before either updated, then both updated
C21_Witness ==
    /\ blueprint0 = [stage |-> "DEVELOPMENT", schema |-> "schemaB"]
    /\ \A r \in {1, 2} :
          /\ RanWithoutError(r)
          /\ fetched[r] = blueprint0
          /\ ~promotedBefore[r]
          /\ Len(updateCalls[r]) = 1
          /\ exitCode[r] = 0
    /\ blueprint = [stage |-> "LIVE", schema |-> "schemaB"]

====
